---- MODULE Spec2Model ----
(***************************************************************************)
(* A model of storages/backends/qingstor.py: the QingStorFile handle, the  *)
(* QingStorStorage store and the name normalizer they share.               *)
(*                                                                         *)
(* Strings (names, keys, modes) are sequences of one-character strings, so *)
(* that prefix tests, stripping and splitting are computed character by    *)
(* character as the Python code computes them.  Bytes are the strings      *)
(* "61", "7B", "C3", "A9"; text characters are "a" (U+0061), "{" (U+007B)  *)
(* and "e_acute" (U+00E9, whose UTF-8 encoding is the two bytes C3 A9).    *)
(***************************************************************************)
EXTENDS Integers, Sequences, FiniteSets, TLC

VARIABLES
    location,   \* QingStorStorage.location, the root prefix
    store,      \* the QingStorStorage object: whether it is built, its secure_url
    account,    \* the service account: the buckets it lists, how its calls fail
    remote,     \* the bucket: a function from the stored keys to their bodies
    files,      \* the QingStorFile objects, one per caller variable
    calls,      \* the remote calls issued by the last operation, in order
    ret,        \* the outcome of the last operation
    lastWrite   \* history: for each key, the last put or delete and its caller

vars == <<location, store, account, remote, files, calls, ret, lastWrite>>

(***************************************************************************)
(* Bounds                                                                  *)
(***************************************************************************)
MaxNameLen == 5     \* longest name given to the normalizer on its own
MaxLen == 2         \* longest buffer, in bytes

NameChars == {"u", "2", ".", "/", "\\"}
Roots == {<<>>, <<"u">>, <<"u", "/">>}

(***************************************************************************)
(* String helpers                                                          *)
(***************************************************************************)
Dot == <<".">>
DotDot == <<".", ".">>
Slash == <<"/">>

StartsWith(s, p) == Len(p) <= Len(s) /\ SubSeq(s, 1, Len(p)) = p

EndsWith(s, p) == Len(p) <= Len(s) /\ SubSeq(s, Len(s) - Len(p) + 1, Len(s)) = p

RECURSIVE RStrip(_, _)
RStrip(s, c) ==
    IF s # <<>> /\ s[Len(s)] = c THEN RStrip(SubSeq(s, 1, Len(s) - 1), c) ELSE s

RECURSIVE LStrip(_, _)
LStrip(s, c) ==
    IF s # <<>> /\ s[1] = c THEN LStrip(Tail(s), c) ELSE s

Replace(s, old, new) == [i \in 1..Len(s) |-> IF s[i] = old THEN new ELSE s[i]]

RECURSIVE Split(_, _)
Split(s, sep) ==
    IF \A i \in 1..Len(s) : s[i] # sep
    THEN <<s>>
    ELSE LET i == CHOOSE k \in 1..Len(s) : s[k] = sep /\ \A j \in 1..(k - 1) : s[j] # sep
         IN  <<SubSeq(s, 1, i - 1)>> \o Split(SubSeq(s, i + 1, Len(s)), sep)

RECURSIVE Join(_, _)
Join(segs, sep) ==
    IF segs = <<>> THEN <<>>
    ELSE IF Len(segs) = 1 THEN segs[1]
    ELSE segs[1] \o <<sep>> \o Join(Tail(segs), sep)

RECURSIVE DropEmpty(_)
DropEmpty(segs) ==
    IF segs = <<>> THEN <<>>
    ELSE IF Head(segs) = <<>> THEN DropEmpty(Tail(segs))
    ELSE <<Head(segs)>> \o DropEmpty(Tail(segs))

(***************************************************************************)
(* posixpath.normpath, as _clean_name calls it                             *)
(***************************************************************************)
InitialSlashes(path) ==
    IF ~StartsWith(path, Slash) THEN 0
    ELSE IF StartsWith(path, <<"/", "/">>) /\ ~StartsWith(path, <<"/", "/", "/">>) THEN 2
    ELSE 1

RECURSIVE NormComps(_, _, _)
NormComps(comps, init, new) ==
    IF comps = <<>> THEN new
    ELSE LET comp == Head(comps)
             rest == Tail(comps)
         IN  IF comp = <<>> \/ comp = Dot
             THEN NormComps(rest, init, new)
             ELSE IF \/ comp # DotDot
                     \/ (init = 0 /\ new = <<>>)
                     \/ (new # <<>> /\ new[Len(new)] = DotDot)
             THEN NormComps(rest, init, Append(new, comp))
             ELSE IF new # <<>>
             THEN NormComps(rest, init, SubSeq(new, 1, Len(new) - 1))
             ELSE NormComps(rest, init, new)

\* path or '.'
OrDot(path) == IF path = <<>> THEN Dot ELSE path

NormPathFrom(path, init) ==
    OrDot([i \in 1..init |-> "/"] \o Join(NormComps(Split(path, "/"), init, <<>>), "/"))

NormPath(path) ==
    IF path = <<>> THEN Dot ELSE NormPathFrom(path, InitialSlashes(path))

(***************************************************************************)
(* QingStorStorage._clean_name                                             *)
(***************************************************************************)
KeepTrailingSlash(name, clean_name) ==
    IF EndsWith(name, Slash) /\ ~EndsWith(clean_name, Slash)
    THEN clean_name \o Slash
    ELSE clean_name

CleanName(name) == KeepTrailingSlash(name, Replace(NormPath(name), "\\", "/"))

(***************************************************************************)
(* urljoin(base, url) for references without scheme, parameters, query or  *)
(* fragment (none of ":", ";", "?", "#" is in NameChars): the network      *)
(* location is what follows a leading "//" up to the next "/", and the     *)
(* path is resolved against the base path by removing dot segments.        *)
(***************************************************************************)
UrlNetloc(url) ==
    IF StartsWith(url, <<"/", "/">>)
    THEN Split(SubSeq(url, 3, Len(url)), "/")[1]
    ELSE <<>>

UrlPath(url) ==
    IF StartsWith(url, <<"/", "/">>)
    THEN SubSeq(url, 3 + Len(UrlNetloc(url)), Len(url))
    ELSE url

UrlUnparse(netloc, path) ==
    IF netloc # <<>>
    THEN <<"/", "/">> \o netloc \o (IF path # <<>> /\ path[1] # "/" THEN Slash \o path ELSE path)
    ELSE path

RECURSIVE RemoveDotSegments(_, _)
RemoveDotSegments(segments, resolved) ==
    IF segments = <<>> THEN resolved
    ELSE LET seg == Head(segments)
         IN  IF seg = DotDot
             THEN RemoveDotSegments(Tail(segments),
                      IF resolved = <<>> THEN resolved
                      ELSE SubSeq(resolved, 1, Len(resolved) - 1))
             ELSE IF seg = Dot
             THEN RemoveDotSegments(Tail(segments), resolved)
             ELSE RemoveDotSegments(Tail(segments), Append(resolved, seg))

\* the directory part of the base path, as segments
BaseParts(all_parts) ==
    IF all_parts[Len(all_parts)] # <<>>
    THEN SubSeq(all_parts, 1, Len(all_parts) - 1)
    ELSE all_parts

\* segments[1:-1] = filter(None, segments[1:-1])
Squeeze(segments) ==
    <<segments[1]>>
        \o DropEmpty(SubSeq(segments, 2, Len(segments) - 1))
        \o <<segments[Len(segments)]>>

\* a reference that ends in a dot segment resolves to a directory
WithTrailing(last, resolved) ==
    IF last = Dot \/ last = DotDot THEN Append(resolved, <<>>) ELSE resolved

ResolveSegments(segments) ==
    Join(WithTrailing(segments[Len(segments)], RemoveDotSegments(segments, <<>>)), "/")

\* path or '/'
OrSlash(path) == IF path = <<>> THEN Slash ELSE path

UrlJoinParts(bnetloc, bpath, netloc, path) ==
    IF netloc # <<>> THEN UrlUnparse(netloc, path)
    ELSE IF path = <<>> THEN UrlUnparse(bnetloc, bpath)
    ELSE IF path[1] = "/"
    THEN UrlUnparse(bnetloc, OrSlash(ResolveSegments(Split(path, "/"))))
    ELSE UrlUnparse(bnetloc,
             OrSlash(ResolveSegments(
                 Squeeze(BaseParts(Split(bpath, "/")) \o Split(path, "/")))))

UrlJoin(base, url) ==
    IF url = <<>> THEN base
    ELSE IF base = <<>> THEN url
    ELSE UrlJoinParts(UrlNetloc(base), UrlPath(base), UrlNetloc(url), UrlPath(url))

(***************************************************************************)
(* QingStorStorage._normalize_name: [ok |-> TRUE, key |-> k] when it       *)
(* returns k, [ok |-> FALSE, ...] when it raises SuspiciousOperation       *)
(***************************************************************************)
BasePath(loc) == RStrip(loc, "/")

FinalPath(loc, name) == UrlJoin(RStrip(BasePath(loc), "/") \o Slash, name)

Slice(s, from, to) ==
    SubSeq(s, from + 1, IF to < Len(s) THEN to ELSE Len(s))

\* the root test without the test of the character that follows the root
NameCheckNoBoundary(base_path, final_path) ==
    ~StartsWith(final_path, base_path)

NameCheckFails(base_path, final_path) ==
    \/ ~StartsWith(final_path, base_path)
    \/ Slice(final_path, Len(base_path), Len(base_path) + 1) \notin {<<>>, Slash}

CheckedKey(base_path, final_path) ==
    IF NameCheckFails(base_path, final_path)
    THEN [ok |-> FALSE, key |-> <<>>]
    ELSE [ok |-> TRUE, key |-> LStrip(final_path, "/")]

NormalizeName(loc, name) == CheckedKey(BasePath(loc), FinalPath(loc, name))

(***************************************************************************)
(* The remote service, as the store calls it: a bucket of objects.  A call *)
(* is recorded as <<operation, key or prefix>>.                            *)
(***************************************************************************)
EmptyBucket == [k \in {} |-> <<>>]

ErrorBody == <<"7B">>    \* the error document the service answers for a missing key

\* a put that keeps the body the bucket already holds at the key
PutObjectIfAbsent(bucket, key, body) ==
    [k \in DOMAIN bucket \cup {key} |-> IF k \in DOMAIN bucket THEN bucket[k] ELSE body]

PutObject(bucket, key, body) ==
    [k \in DOMAIN bucket \cup {key} |-> IF k = key THEN body ELSE bucket[k]]

GetObjectContent(bucket, key) ==
    IF key \in DOMAIN bucket THEN bucket[key] ELSE ErrorBody

DeleteObject(bucket, key) ==
    [k \in DOMAIN bucket \ {key} |-> bucket[k]]

HeadObjectStatus(bucket, key) ==
    IF key \in DOMAIN bucket THEN 200 ELSE 404

CharRank ==
    [c \in {".", "/", "2", "\\", "a", "b", "u"} |->
        CASE c = "." -> 46 [] c = "/" -> 47 [] c = "2" -> 50 [] c = "\\" -> 92
          [] c = "a" -> 97 [] c = "b" -> 98 [] c = "u" -> 117]

RECURSIVE KeyLess(_, _)
KeyLess(k1, k2) ==
    IF k1 = <<>> THEN k2 # <<>>
    ELSE IF k2 = <<>> THEN FALSE
    ELSE IF k1[1] = k2[1] THEN KeyLess(Tail(k1), Tail(k2))
    ELSE CharRank[k1[1]] < CharRank[k2[1]]

RECURSIVE SortKeys(_)
SortKeys(keys) ==
    IF keys = {} THEN <<>>
    ELSE LET first == CHOOSE k \in keys : \A other \in keys \ {k} : KeyLess(k, other)
         IN  <<first>> \o SortKeys(keys \ {first})

ListObjects(bucket, prefix) ==
    SortKeys({k \in DOMAIN bucket : StartsWith(k, prefix)})

(***************************************************************************)
(* force_bytes and force_text: UTF-8 encoding and strict decoding          *)
(***************************************************************************)
RECURSIVE Utf8Encode(_)
Utf8Encode(text) ==
    IF text = <<>> THEN <<>>
    ELSE (CASE Head(text) = "a" -> <<"61">>
            [] Head(text) = "{" -> <<"7B">>
            [] Head(text) = "e_acute" -> <<"C3", "A9">>) \o Utf8Encode(Tail(text))

RECURSIVE Utf8Valid(_)
Utf8Valid(bytes) ==
    IF bytes = <<>> THEN TRUE
    ELSE IF Head(bytes) \in {"61", "7B"} THEN Utf8Valid(Tail(bytes))
    ELSE /\ Len(bytes) >= 2
         /\ bytes[1] = "C3"
         /\ bytes[2] = "A9"
         /\ Utf8Valid(Tail(Tail(bytes)))

RECURSIVE Utf8Decode(_)
Utf8Decode(bytes) ==
    IF bytes = <<>> THEN <<>>
    ELSE IF Head(bytes) = "61" THEN <<"a">> \o Utf8Decode(Tail(bytes))
    ELSE IF Head(bytes) = "7B" THEN <<"{">> \o Utf8Decode(Tail(bytes))
    ELSE <<"e_acute">> \o Utf8Decode(Tail(Tail(bytes)))

\* content given to write(): text or bytes
ForceBytes(content) ==
    IF content.text THEN Utf8Encode(content.s) ELSE content.s

HasChar(mode, c) == \E i \in 1..Len(mode) : mode[i] = c

(***************************************************************************)
(* six.BytesIO: a byte sequence and a cursor                               *)
(***************************************************************************)
BufWrite(file, pos, bytes) ==
    LET end == pos + Len(bytes)
        newlen == IF end > Len(file) THEN end ELSE Len(file)
    IN  [i \in 1..newlen |->
            IF i > pos /\ i <= end THEN bytes[i - pos] ELSE file[i]]

BufRead(file, pos, num_bytes) ==
    IF num_bytes < 0 \/ pos + num_bytes > Len(file)
    THEN Slice(file, pos, Len(file))
    ELSE Slice(file, pos, pos + num_bytes)

(***************************************************************************)
(* Inputs of the store and handle operations                               *)
(***************************************************************************)
Handles == {"f1"}

StoreRoots == {<<>>, <<"u">>}

\* "a" stays within every root, "../a" escapes every root
Names == {<<"a">>, <<".", ".", "/", "a">>}

Modes == {<<"r", "b">>, <<"r">>, <<"w">>}

WriteContents ==
    {[text |-> TRUE, s |-> <<"e_acute">>],
     [text |-> FALSE, s |-> <<"61">>]}

SaveBodies == {<<"61">>}

NoneBytes == -1     \* read() without num_bytes

ReadSizes == {NoneBytes, 1}

(***************************************************************************)
(* QingStorFile                                                            *)
(***************************************************************************)
\* a caller variable that holds no handle yet
NoFile ==
    [live |-> FALSE, name |-> <<>>, mode |-> <<>>, file |-> <<>>, pos |-> 0,
     closed |-> FALSE, is_dirty |-> FALSE, is_read |-> FALSE,
     has_size |-> FALSE, size |-> 0, only_writes |-> FALSE, written |-> 0,
     returned |-> <<>>]

\* a handle that is dirty from the start
NewFileDirty(name, mode) ==
    [live |-> TRUE, name |-> name, mode |-> mode, file |-> <<>>, pos |-> 0,
     closed |-> FALSE, is_dirty |-> TRUE, is_read |-> FALSE,
     has_size |-> FALSE, size |-> 0, only_writes |-> TRUE, written |-> 0,
     returned |-> <<>>]

\* QingStorFile.__init__
NewFile(name, mode) ==
    [live |-> TRUE, name |-> name, mode |-> mode, file |-> <<>>, pos |-> 0,
     closed |-> FALSE, is_dirty |-> FALSE, is_read |-> FALSE,
     has_size |-> FALSE, size |-> 0, only_writes |-> TRUE, written |-> 0,
     returned |-> <<>>]

NoRet ==
    [op |-> "none", h |-> "-", name |-> <<>>, status |-> "ok",
     data |-> <<>>, text |-> FALSE, num |-> 0, flag |-> FALSE, keys |-> <<>>]

Outcome(op, h, name, status) ==
    [NoRet EXCEPT !.op = op, !.h = h, !.name = name, !.status = status]

\* the history of a key: the last put ("close", "save") or "delete", and the name given
Recorded(hist, key, op, name) ==
    [k \in DOMAIN hist \cup {key} |->
        IF k = key THEN [op |-> op, name |-> name] ELSE hist[k]]

(***************************************************************************)
(* QingStorStorage                                                         *)
(***************************************************************************)
\* the names and paths given to the store in the specifications below
StoreNames == {<<"a", "/", "a">>, <<"a", "/", "b">>, <<"b">>}

StorePaths == {<<>>, <<"a">>, <<"a", "/">>}

TwoNames == {<<"a">>, <<"a", "/", "b">>}

TwoPaths == {<<"a">>, <<"a", "/">>}

ReadNames == {<<"a">>}

AllNames ==
    Names \cup StoreNames \cup StorePaths \cup TwoNames \cup TwoPaths \cup ReadNames

\* self._normalize_name(self._clean_name(name)) for every root and every name
\* given, computed once
KeyOf ==
    [loc \in StoreRoots |->
        [name \in AllNames |-> NormalizeName(loc, CleanName(name))]]

\* QingStorStorage._save: the key it puts the content at, when the name is accepted
SaveKey(loc, name) == KeyOf[loc][name]

\* QingStorStorage._read: the name is the key of the get
ReadKey(loc, name) == name

\* QingStorStorage.size: the name is the prefix of the listing
SizePrefix(loc, name) == name

\* a delete that passes the name on as it was given
DeleteKeyRaw(loc, name) == [ok |-> TRUE, key |-> name]

\* QingStorStorage.delete: the key of the remote delete
DeleteKey(loc, name) == KeyOf[loc][name]

\* a stat that passes the name on as it was given
StatKeyRaw(loc, name) == [ok |-> TRUE, key |-> name]

\* QingStorStorage._file_stat: the key of the remote head
StatKey(loc, name) == KeyOf[loc][name]

\* a listing that passes the path on as it was given
ListdirPrefixRaw(loc, path) == [ok |-> TRUE, key |-> path]

\* QingStorStorage.listdir: the prefix of the listing
ListdirPrefix(loc, path) == KeyOf[loc][path]

\* a url that passes the name on as it was given
UrlKeyRaw(loc, name) == [ok |-> TRUE, key |-> name]

\* QingStorStorage.url: the key the URL is made of
UrlKey(loc, name) == KeyOf[loc][name]

\* a write that does not test the mode
WriteAlwaysPermitted(mode) == TRUE

\* QingStorFile.write: the mode test
WritePermitted(mode) == HasChar(mode, "w")

\* a write that marks the handle dirty only
WriteFileNotRead(f, bytes) ==
    [f EXCEPT !.file = BufWrite(f.file, f.pos, bytes),
              !.pos = f.pos + Len(bytes),
              !.is_dirty = TRUE,
              !.written = IF f.only_writes THEN f.written + Len(bytes) ELSE 0,
              !.returned = <<>>]

\* QingStorFile.write: the handle after a write of bytes
WriteFile(f, bytes) ==
    [f EXCEPT !.file = BufWrite(f.file, f.pos, bytes),
              !.pos = f.pos + Len(bytes),
              !.is_dirty = TRUE,
              !.is_read = TRUE,
              !.written = IF f.only_writes THEN f.written + Len(bytes) ELSE 0,
              !.returned = <<>>]

\* QingStorFile.read: the handle after the first read has fetched content
FetchFile(f, content) ==
    [f EXCEPT !.file = content, !.pos = 0, !.closed = FALSE, !.is_read = TRUE]

\* a size that tells the cursor without seeking to the end
BufSizeAtCursor(file, pos) == pos

\* QingStorFile.size: the length of a touched buffer (seek to the end, tell)
BufSize(file, pos) == Len(file)

\* a size that leaves the cursor at the end of the buffer
SizeStaysAtEnd(pos, end) == end

\* QingStorFile.size: the cursor after the measurement (seek back)
SizeSeekBack(pos, end) == pos

\* a close that saves whether or not the handle is dirty
CloseSavesAlways(f) == TRUE

\* QingStorFile.close: the test that decides whether the buffer is saved
CloseSaves(f) == f.is_dirty

\* a close that saves from wherever the cursor is
CloseNoSeek(pos) == pos

\* QingStorFile.close: where the cursor is put before the save
CloseSeek(pos) == 0

(***************************************************************************)
(* The configuration of the store, the service account it is built on and  *)
(* the public URL of a key                                                 *)
(***************************************************************************)
BucketName == <<"b">>       \* QINGSTOR_BUCKET_NAME
BucketZone == <<"z">>       \* QINGSTOR_BUCKET_ZONE
ConfigHost == <<"q">>       \* Config.host

\* a value of the secure_url setting: a boolean of the settings module, or a
\* string of the environment
BoolValue(b) == [str |-> FALSE, b |-> b, s |-> ""]

StrValue(s) == [str |-> TRUE, b |-> FALSE, s |-> s]

SecureUrlDefault == StrValue("True")

SecureUrlValues ==
    {BoolValue(TRUE), BoolValue(FALSE), StrValue("True"), StrValue("False")}

\* the truth of a value in `if self.secure_url:`
Truthy(value) == IF value.str THEN value.s # "" ELSE value.b

Protocol(secure_url) ==
    IF Truthy(secure_url)
    THEN <<"h", "t", "t", "p", "s", ":", "/", "/">>
    ELSE <<"h", "t", "t", "p", ":", "/", "/">>

\* protocol + self.bucket_name + '.' + self.zone + '.' + self.config.host
UrlBase(secure_url) ==
    Protocol(secure_url) \o BucketName \o Dot \o BucketZone \o Dot \o ConfigHost

\* filepath_to_uri on names without characters that are quoted
FilepathToUri(path) == Replace(path, "\\", "/")

\* urljoin(base, url) for a base with a scheme and a reference without one:
\* the scheme is the base's, the rest is joined as above
UrlScheme(base) == Split(base, ":")[1]

UrlJoinAbsolute(base, url) ==
    IF url = <<>> THEN base
    ELSE UrlScheme(base) \o <<":">>
            \o UrlJoin(SubSeq(base, Len(UrlScheme(base)) + 2, Len(base)), url)

PublicUrl(secure_url, key) == UrlJoinAbsolute(UrlBase(secure_url), FilepathToUri(key))

\* the QingStorStorage object: not yet built, and built with a secure_url
NoStore == [built |-> FALSE, secure_url |-> SecureUrlDefault]

BuiltStore(secure_url) == [built |-> TRUE, secure_url |-> secure_url]

\* the account in which the bucket has been provisioned and every call answers
HealthyAccount == [buckets |-> {BucketName}, fault |-> "none"]

Init ==
    /\ location \in StoreRoots
    /\ store = BuiltStore(SecureUrlDefault)
    /\ account = HealthyAccount
    /\ remote = EmptyBucket
    /\ files = [h \in Handles |-> NoFile]
    /\ calls = <<>>
    /\ ret = NoRet
    /\ lastWrite = [k \in {} |-> [op |-> "none", name |-> <<>>]]

\* QingStorStorage._open
Open(h, name, mode) ==
    /\ store.built
    /\ files' = [files EXCEPT ![h] = NewFile(name, mode)]
    /\ calls' = <<>>
    /\ ret' = Outcome("open", h, name, "ok")
    /\ UNCHANGED <<location, store, account, remote, lastWrite>>

\* QingStorFile.size
HandleSize(h) ==
    LET f == files[h]
        touched == f.is_dirty \/ f.is_read
        prefix == SizePrefix(location, f.name)
        listing == ListObjects(remote, prefix)
        \* flag of an untouched handle: the operation before was a size of this
        \* handle that called the remote service
        again == ret.op = "size" /\ ret.h = h /\ calls # <<>>
    IN  /\ f.live
        /\ IF touched /\ f.closed
           THEN \* file.tell() on a closed buffer
                /\ ret' = Outcome("size", h, f.name, "ValueError")
                /\ calls' = <<>>
                /\ UNCHANGED files
           ELSE IF touched
           THEN /\ files' = [files EXCEPT ![h].has_size = TRUE,
                                          ![h].size = BufSize(f.file, f.pos),
                                          ![h].pos = SizeSeekBack(f.pos, Len(f.file))]
                /\ ret' = [Outcome("size", h, f.name, "ok") EXCEPT
                              !.num = BufSize(f.file, f.pos)]
                /\ calls' = <<>>
           ELSE IF f.has_size
           THEN /\ ret' = [Outcome("size", h, f.name, "ok") EXCEPT
                              !.num = f.size, !.flag = again]
                /\ calls' = <<>>
                /\ UNCHANGED files
           ELSE IF listing = <<>>
           THEN /\ ret' = [Outcome("size", h, f.name, "IndexError") EXCEPT !.flag = again]
                /\ calls' = <<<<"list", prefix>>>>
                /\ UNCHANGED files
           ELSE /\ files' = [files EXCEPT ![h].has_size = TRUE,
                                          ![h].size = Len(remote[listing[1]])]
                /\ ret' = [Outcome("size", h, f.name, "ok") EXCEPT
                              !.num = Len(remote[listing[1]]), !.flag = again]
                /\ calls' = <<<<"list", prefix>>>>
        /\ UNCHANGED <<location, store, account, remote, lastWrite>>

\* history: what the reads of a handle that was never written have returned
\* so far, one after the other
Returned(f, binary, data) ==
    IF f.is_dirty THEN <<>>
    ELSE IF binary THEN f.returned \o data
    ELSE IF Utf8Valid(data) THEN f.returned \o Utf8Decode(data)
    ELSE f.returned

\* QingStorFile.read
Read(h, num_bytes) ==
    LET f == files[h]
        fetch == ~f.is_read
        key == ReadKey(location, f.name)
        g == [(IF fetch THEN FetchFile(f, GetObjectContent(remote, key)) ELSE f)
                 EXCEPT !.only_writes = FALSE, !.written = 0]
        data == BufRead(g.file, g.pos, num_bytes)
        binary == HasChar(f.mode, "b")
    IN  /\ f.live
        /\ calls' = IF fetch THEN <<<<"get", key>>>> ELSE <<>>
        /\ IF g.closed
           THEN \* file.read() on a closed buffer
                /\ files' = [files EXCEPT ![h] = g]
                /\ ret' = Outcome("read", h, f.name, "ValueError")
           ELSE /\ files' = [files EXCEPT ![h] =
                                [g EXCEPT !.pos = g.pos + Len(data),
                                          !.returned = Returned(g, binary, data)]]
                /\ ret' = IF binary
                          THEN [Outcome("read", h, f.name, "ok") EXCEPT
                                   !.data = data, !.num = num_bytes]
                          ELSE IF Utf8Valid(data)
                          THEN [Outcome("read", h, f.name, "ok") EXCEPT
                                   !.data = Utf8Decode(data), !.text = TRUE, !.num = num_bytes]
                          ELSE [Outcome("read", h, f.name, "UnicodeDecodeError") EXCEPT
                                   !.num = num_bytes]
        /\ UNCHANGED <<location, store, account, remote, lastWrite>>

\* QingStorFile.write
Write(h, content) ==
    LET f == files[h]
        bytes == ForceBytes(content)
    IN  /\ f.live
        /\ f.pos + Len(bytes) <= MaxLen
        /\ calls' = <<>>
        /\ IF ~WritePermitted(f.mode)
           THEN /\ ret' = Outcome("write", h, f.name, "AttributeError")
                /\ UNCHANGED files
           ELSE IF f.closed
           THEN \* file.write() on a closed buffer
                /\ ret' = Outcome("write", h, f.name, "ValueError")
                /\ UNCHANGED files
           ELSE /\ files' = [files EXCEPT ![h] = WriteFile(f, bytes)]
                /\ ret' = [Outcome("write", h, f.name, "ok") EXCEPT !.num = Len(bytes)]
        /\ UNCHANGED <<location, store, account, remote, lastWrite>>

\* QingStorFile.close
Close(h) ==
    LET f == files[h]
        saved == SaveKey(location, f.name)
        start == CloseSeek(f.pos)
        body == Slice(f.file, start, Len(f.file))
    IN  /\ f.live
        /\ IF ~CloseSaves(f)
           THEN /\ files' = [files EXCEPT ![h].closed = TRUE, ![h].only_writes = FALSE,
                                          ![h].written = 0]
                /\ calls' = <<>>
                \* flag: whether the buffer was closed already when close was called
                /\ ret' = [Outcome("close", h, f.name, "ok") EXCEPT !.flag = f.closed]
                /\ UNCHANGED <<remote, lastWrite>>
           ELSE IF f.closed
           THEN \* file.seek(0) on a closed buffer
                /\ calls' = <<>>
                /\ ret' = Outcome("close", h, f.name, "ValueError")
                /\ UNCHANGED <<files, remote, lastWrite>>
           ELSE IF ~saved.ok
           THEN /\ files' = [files EXCEPT ![h].pos = start, ![h].only_writes = FALSE,
                                          ![h].written = 0]
                /\ calls' = <<>>
                /\ ret' = Outcome("close", h, f.name, "SuspiciousOperation")
                /\ UNCHANGED <<remote, lastWrite>>
           ELSE /\ remote' = PutObject(remote, saved.key, body)
                /\ lastWrite' = Recorded(lastWrite, saved.key, "close", f.name)
                /\ files' = [files EXCEPT ![h].pos = Len(f.file), ![h].closed = TRUE,
                                          ![h].only_writes = FALSE, ![h].written = 0]
                /\ calls' = <<<<"put", saved.key>>>>
                /\ ret' = [Outcome("close", h, f.name, "ok") EXCEPT !.data = body]
        /\ UNCHANGED <<location, store, account>>

\* QingStorStorage._save
Save(name, content) ==
    LET saved == SaveKey(location, name)
    IN  /\ store.built
        /\ IF ~saved.ok
           THEN /\ calls' = <<>>
                /\ ret' = Outcome("save", "-", name, "SuspiciousOperation")
                /\ UNCHANGED <<remote, lastWrite>>
           ELSE /\ remote' = PutObject(remote, saved.key, content)
                /\ lastWrite' = Recorded(lastWrite, saved.key, "save", name)
                /\ calls' = <<<<"put", saved.key>>>>
                /\ ret' = [Outcome("save", "-", name, "ok") EXCEPT !.data = CleanName(name)]
        /\ UNCHANGED <<location, store, account, files>>

\* QingStorStorage.delete
Delete(name) ==
    LET norm == DeleteKey(location, name)
    IN  /\ store.built
        /\ IF ~norm.ok
           THEN /\ calls' = <<>>
                /\ ret' = Outcome("delete", "-", name, "SuspiciousOperation")
                /\ UNCHANGED <<remote, lastWrite>>
           ELSE /\ remote' = DeleteObject(remote, norm.key)
                /\ lastWrite' = Recorded(lastWrite, norm.key, "delete", name)
                /\ calls' = <<<<"delete", norm.key>>>>
                \* flag: whether the service held the key when the delete arrived
                /\ ret' = [Outcome("delete", "-", name, "ok") EXCEPT
                              !.flag = (norm.key \in DOMAIN remote)]
        /\ UNCHANGED <<location, store, account, files>>

\* QingStorStorage.exists, through _file_stat
Exists(name) ==
    LET norm == StatKey(location, name)
    IN  /\ store.built
        /\ IF ~norm.ok
           THEN /\ calls' = <<>>
                /\ ret' = Outcome("exists", "-", name, "SuspiciousOperation")
           ELSE /\ calls' = <<<<"head", norm.key>>>>
                /\ ret' = [Outcome("exists", "-", name, "ok") EXCEPT
                              !.flag = (HeadObjectStatus(remote, norm.key) = 200)]
        /\ UNCHANGED <<location, store, account, remote, files, lastWrite>>

\* QingStorStorage.size
Size(name) ==
    LET prefix == SizePrefix(location, name)
        listing == ListObjects(remote, prefix)
    IN  /\ store.built
        /\ calls' = <<<<"list", prefix>>>>
        /\ ret' = IF listing = <<>>
                  THEN Outcome("storesize", "-", name, "IndexError")
                  ELSE [Outcome("storesize", "-", name, "ok") EXCEPT
                           !.num = Len(remote[listing[1]])]
        /\ UNCHANGED <<location, store, account, remote, files, lastWrite>>

\* QingStorStorage.listdir
Listdir(path) ==
    LET norm == ListdirPrefix(location, path)
    IN  /\ store.built
        /\ IF ~norm.ok
           THEN /\ calls' = <<>>
                /\ ret' = Outcome("listdir", "-", path, "SuspiciousOperation")
           ELSE /\ calls' = <<<<"list", norm.key>>>>
                /\ ret' = [Outcome("listdir", "-", path, "ok") EXCEPT
                              !.keys = ListObjects(remote, norm.key)]
        /\ UNCHANGED <<location, store, account, remote, files, lastWrite>>

\* QingStorStorage.url
Url(name) ==
    LET norm == UrlKey(location, name)
    IN  /\ store.built
        /\ calls' = <<>>
        /\ ret' = IF ~norm.ok
                  THEN Outcome("url", "-", name, "SuspiciousOperation")
                  ELSE [Outcome("url", "-", name, "ok") EXCEPT
                           !.data = PublicUrl(store.secure_url, norm.key)]
        /\ UNCHANGED <<location, store, account, remote, files, lastWrite>>

Next ==
    \/ \E h \in Handles, name \in Names, mode \in Modes : Open(h, name, mode)
    \/ \E h \in Handles : HandleSize(h)
    \/ \E h \in Handles, n \in ReadSizes : Read(h, n)
    \/ \E h \in Handles, content \in WriteContents : Write(h, content)
    \/ \E h \in Handles : Close(h)
    \/ \E name \in Names, content \in SaveBodies : Save(name, content)
    \/ \E name \in Names : Delete(name)
    \/ \E name \in Names : Exists(name)
    \/ \E name \in Names : Size(name)
    \/ \E path \in Names : Listdir(path)
    \/ \E name \in Names : Url(name)

Spec == Init /\ [][Next]_vars

(***************************************************************************)
(* The store from its construction on: the account is in any of the states *)
(* a service account can be in, the store is built with any secure_url,    *)
(* and then serves names that share a prefix                               *)
(***************************************************************************)
OtherBucket == <<"o">>

\* how the calls of _init_bucket fail: not at all, list_buckets raises,
\* list_buckets answers an error document without 'buckets', put raises
Faults == {"none", "list_raises", "list_malformed", "put_raises"}

Accounts ==
    [buckets : {{}, {OtherBucket}, {BucketName, OtherBucket}}, fault : Faults]

ListBucketsCall == <<"list_buckets", <<>>>>

PutBucketCall == <<"put_bucket", BucketName>>

InitStore ==
    /\ location \in StoreRoots
    /\ store = NoStore
    /\ account \in Accounts
    /\ remote = EmptyBucket
    /\ files = [h \in Handles |-> NoFile]
    /\ calls = <<>>
    /\ ret = NoRet
    /\ lastWrite = [k \in {} |-> [op |-> "none", name |-> <<>>]]

\* QingStorStorage.__init__ with _init_bucket
Construct(secure_url) ==
    /\ ~store.built
    /\ IF account.fault = "list_raises"
       THEN \* qingstor.list_buckets() is called before the try
            /\ calls' = <<ListBucketsCall>>
            /\ ret' = Outcome("construct", "-", <<>>, "ConnectionError")
            /\ UNCHANGED <<store, account>>
       ELSE IF account.fault = "list_malformed"
       THEN \* list_bucket_output['buckets'] raises within the try
            /\ calls' = <<ListBucketsCall>>
            /\ ret' = Outcome("construct", "-", <<>>, "ok")
            /\ store' = BuiltStore(secure_url)
            /\ UNCHANGED account
       ELSE IF BucketName \in account.buckets
       THEN /\ calls' = <<ListBucketsCall>>
            /\ ret' = Outcome("construct", "-", <<>>, "ok")
            /\ store' = BuiltStore(secure_url)
            /\ UNCHANGED account
       ELSE IF account.fault = "put_raises"
       THEN \* bucket.put() raises within the try
            /\ calls' = <<ListBucketsCall, PutBucketCall>>
            /\ ret' = Outcome("construct", "-", <<>>, "ok")
            /\ store' = BuiltStore(secure_url)
            /\ UNCHANGED account
       ELSE /\ calls' = <<ListBucketsCall, PutBucketCall>>
            /\ ret' = Outcome("construct", "-", <<>>, "ok")
            /\ store' = BuiltStore(secure_url)
            /\ account' = [account EXCEPT !.buckets = @ \cup {BucketName}]
    /\ UNCHANGED <<location, remote, files, lastWrite>>

NextStore ==
    \/ \E secure_url \in SecureUrlValues : Construct(secure_url)
    \/ \E name \in StoreNames, content \in SaveBodies : Save(name, content)
    \/ \E name \in StoreNames : Delete(name)
    \/ \E name \in StoreNames : Exists(name)
    \/ \E name \in StoreNames : Size(name)
    \/ \E path \in StorePaths : Listdir(path)
    \/ \E name \in StoreNames : Url(name)

SpecStore == InitStore /\ [][NextStore]_vars

(***************************************************************************)
(* Two handles that are written and closed, on one name or on two names    *)
(* that share a prefix, and the listing of what they stored                *)
(***************************************************************************)
TwoHandles == {"f1", "f2"}

WriteModes == {<<"w">>}

InitTwo ==
    /\ location \in StoreRoots
    /\ store = BuiltStore(SecureUrlDefault)
    /\ account = HealthyAccount
    /\ remote = EmptyBucket
    /\ files = [h \in TwoHandles |-> NoFile]
    /\ calls = <<>>
    /\ ret = NoRet
    /\ lastWrite = [k \in {} |-> [op |-> "none", name |-> <<>>]]

NextTwo ==
    \/ \E h \in TwoHandles, name \in TwoNames, mode \in WriteModes : Open(h, name, mode)
    \/ \E h \in TwoHandles, content \in WriteContents : Write(h, content)
    \/ \E h \in TwoHandles : Close(h)
    \/ \E path \in TwoPaths : Listdir(path)

SpecTwo == InitTwo /\ [][NextTwo]_vars

(***************************************************************************)
(* A handle that only reads, piece by piece, while the object it was       *)
(* opened on is saved and deleted through the store                        *)
(***************************************************************************)
ReadModes == {<<"r", "b">>, <<"r">>}

\* "a", and e-acute followed by "a"
ReadBodies == {<<"61">>, <<"C3", "A9", "61">>}

NextRead ==
    \/ \E h \in Handles, name \in ReadNames, mode \in ReadModes : Open(h, name, mode)
    \/ \E h \in Handles, n \in ReadSizes : Read(h, n)
    \/ \E h \in Handles : HandleSize(h)
    \/ \E h \in Handles : Close(h)
    \/ \E name \in ReadNames, content \in ReadBodies : Save(name, content)
    \/ \E name \in ReadNames : Delete(name)

SpecRead == Init /\ [][NextRead]_vars

(***************************************************************************)
(* The normalizer on its own: every name up to MaxNameLen characters,      *)
(* cleaned and normalized under every root                                 *)
(***************************************************************************)
NamesUpTo(n) == UNION {[1..k -> NameChars] : k \in 0..n}

\* a root and a name are drawn; the call on the name is pending
InitNorm ==
    /\ location \in Roots
    /\ store = BuiltStore(SecureUrlDefault)
    /\ account = HealthyAccount
    /\ remote = EmptyBucket
    /\ files = [h \in Handles |-> NoFile]
    /\ calls = <<>>
    /\ \E name \in NamesUpTo(MaxNameLen) : ret = Outcome("pending", "-", name, "ok")
    /\ lastWrite = [k \in {} |-> [op |-> "none", name |-> <<>>]]

\* self._normalize_name(self._clean_name(name)), as every store operation starts
NormalizeCleaned(name) ==
    LET norm == NormalizeName(location, CleanName(name))
    IN  /\ ret.op = "pending"
        /\ ret.name = name
        /\ ret' = [Outcome("normalize", "-", name,
                           IF norm.ok THEN "ok" ELSE "SuspiciousOperation")
                      EXCEPT !.data = norm.key]
        /\ UNCHANGED <<location, store, account, remote, files, calls, lastWrite>>

NextNorm == NormalizeCleaned(ret.name)

SpecNorm == InitNorm /\ [][NextNorm]_vars

(***************************************************************************)
(* Properties                                                              *)
(***************************************************************************)
\* Lexical resolution of a path, segment by segment: "." and empty segments
\* are skipped, ".." removes the segment before it; a ".." with nothing
\* before it stays at the top of an absolute path and climbs out of a
\* relative one.
RECURSIVE Climb(_, _, _)
Climb(segs, absolute, st) ==
    IF segs = <<>> THEN st
    ELSE LET seg == Head(segs)
         IN  IF seg = <<>> \/ seg = Dot
             THEN Climb(Tail(segs), absolute, st)
             ELSE IF seg = DotDot /\ st.stack # <<>>
             THEN Climb(Tail(segs), absolute,
                        [st EXCEPT !.stack = SubSeq(st.stack, 1, Len(st.stack) - 1)])
             ELSE IF seg = DotDot
             THEN Climb(Tail(segs), absolute,
                        [st EXCEPT !.escaped = st.escaped \/ ~absolute])
             ELSE Climb(Tail(segs), absolute, [st EXCEPT !.stack = Append(st.stack, seg)])

Resolved(path) ==
    LET absolute == StartsWith(path, Slash)
        st == Climb(Split(path, "/"), absolute, [stack |-> <<>>, escaped |-> FALSE])
    IN  [absolute |-> absolute, stack |-> st.stack, escaped |-> st.escaped]

\* the joined path lies outside the root: it climbs out, or it is absolute
\* where the root is not, or the root's segments do not begin its segments
EscapesRoot(loc, final_path) ==
    LET root == Resolved(BasePath(loc) \o Slash)
        path == Resolved(final_path)
    IN  \/ path.escaped
        \/ path.absolute # root.absolute
        \/ ~StartsWith(path.stack, root.stack)

NormalizedRoot(loc) == LStrip(BasePath(loc), "/")

\* C1: traversal safety of normalizeName.  For every root and every name, when
\* the cleaned name joined onto the root resolves outside the root (".."
\* segments, an absolute name, a sibling such as "u2" of root "u"), the
\* normalizer raises SuspiciousOperation; otherwise it returns a key that
\* starts with the normalized root.
C1_TraversalSafety ==
    ret.op = "normalize" =>
        IF EscapesRoot(location, FinalPath(location, CleanName(ret.name)))
        THEN ret.status = "SuspiciousOperation"
        ELSE ret.status = "ok" /\ StartsWith(ret.data, NormalizedRoot(location))

\* the sibling "../u2" of root "u" has been refused
C1_Witness ==
    /\ ret.op = "normalize"
    /\ location = <<"u">>
    /\ ret.name = <<".", ".", "/", "u", "2">>
    /\ ret.status = "SuspiciousOperation"

IsPut(call) == call[1] = "put"

\* C2: key confinement.  With a non-empty root, every key or prefix passed to
\* the remote service by any store or handle operation starts with the
\* normalized root.
C2_KeyConfinement ==
    location # <<>> =>
        \A i \in 1..Len(calls) : StartsWith(calls[i][2], NormalizedRoot(location))

\* C3: write-then-read round trip.  When the object at the key of a name N
\* within the root was last put by the close of a written handle on N, the
\* first, full read of a handle on N returns that content: the same bytes in
\* binary mode, their UTF-8 decoding in text mode.
C3_RoundTrip ==
    LET saved == SaveKey(location, ret.name)
    IN  ( /\ ret.op = "read"
          /\ calls # <<>>
          /\ ret.num = NoneBytes
          /\ saved.ok
          /\ saved.key \in DOMAIN lastWrite
          /\ lastWrite[saved.key] = [op |-> "close", name |-> ret.name] )
        => IF HasChar(files[ret.h].mode, "b")
           THEN ret.status = "ok" /\ ret.data = remote[saved.key]
           ELSE Utf8Valid(remote[saved.key])
                    => ret.status = "ok" /\ ret.data = Utf8Decode(remote[saved.key])

\* C4: object lifecycle.  For every name N within the root, exists(N) is true
\* exactly when the last close of a dirty handle, save or delete on N's key
\* was a put; in particular it would be true right after a close that
\* flushed N and false right after a delete of N.
C4_Lifecycle ==
    LET saved == SaveKey(location, ret.name)
    IN  /\ (ret.op = "exists" /\ saved.ok)
            => /\ ret.status = "ok"
               /\ ret.flag = ( /\ saved.key \in DOMAIN lastWrite
                               /\ lastWrite[saved.key].op \in {"close", "save"} )
        /\ (ret.op = "close" /\ ret.status = "ok" /\ calls # <<>>)
            => HeadObjectStatus(remote, StatKey(location, ret.name).key) = 200
        /\ (ret.op = "delete" /\ ret.status = "ok")
            => HeadObjectStatus(remote, StatKey(location, ret.name).key) = 404

\* exists answered true for a name whose key was last put by a close
C4_Witness ==
    LET saved == SaveKey(location, ret.name)
    IN  /\ ret.op = "exists"
        /\ ret.flag
        /\ location = <<"u">>
        /\ saved.key \in DOMAIN lastWrite
        /\ lastWrite[saved.key].op = "close"

\* C5: store-level size.  For a name N within the root, size(N) returns the
\* byte length of the object stored at N's key, and fails (not found) when no
\* object is stored there.
C5_StoreSize ==
    LET saved == SaveKey(location, ret.name)
    IN  (ret.op = "storesize" /\ saved.ok)
        => IF saved.key \in DOMAIN remote
           THEN ret.status = "ok" /\ ret.num = Len(remote[saved.key])
           ELSE ret.status = "IndexError"

\* C6: handle size before close.  On a handle that has been written or read
\* and is not closed, size succeeds, returns the byte length of the whole
\* buffer and issues no remote call; on a handle that has only been written
\* since it was opened, it is the total number of bytes written.
C6_HandleSize ==
    \A h \in Handles :
        LET f == files[h]
        IN  (ret.op = "size" /\ ret.h = h /\ (f.is_dirty \/ f.is_read) /\ ~f.closed)
            => /\ ret.status = "ok"
               /\ ret.num = Len(f.file)
               /\ calls = <<>>
               /\ f.only_writes => ret.num = f.written

\* size answered 2 on a handle on which one character of two bytes was written
C6_Witness ==
    \E h \in Handles :
        /\ ret.op = "size"
        /\ ret.h = h
        /\ files[h].only_writes
        /\ files[h].written = 2
        /\ files[h].pos = 2
        /\ ret.num = 2

\* C7: lazy read state.  Opening a handle issues no remote call and leaves
\* is_read and is_dirty false; after the first read is_read is true and
\* is_dirty still false; after a write on a writable handle that is not
\* closed both are true.
C7_LazyReadState ==
    \A h \in Handles :
        LET f == files[h]
        IN  /\ (ret.op = "open" /\ ret.h = h)
                => calls = <<>> /\ ~f.is_read /\ ~f.is_dirty
            /\ (ret.op = "read" /\ ret.h = h)
                => f.is_read /\ (calls # <<>> => ~f.is_dirty)
            /\ (ret.op = "write" /\ ret.h = h /\ HasChar(f.mode, "w") /\ ~f.closed)
                => ret.status = "ok" /\ f.is_read /\ f.is_dirty /\ calls = <<>>

\* a write has succeeded on a handle that had fetched nothing
C7_Witness ==
    \E h \in Handles :
        /\ ret.op = "write"
        /\ ret.h = h
        /\ ret.status = "ok"
        /\ files[h].only_writes
        /\ files[h].is_read
        /\ files[h].is_dirty

\* C8: read-only enforcement.  A write on a handle whose mode has no "w" fails
\* with AttributeError for every content and changes nothing of the handle
\* and nothing remote; such a handle is never dirty, so its close puts nothing.
C8_ReadOnlyEnforcement ==
    /\ [][\A h \in Handles :
            (ret'.op = "write" /\ ret'.h = h /\ files[h].live /\ ~HasChar(files[h].mode, "w"))
            => /\ ret'.status = "AttributeError"
               /\ files'[h] = files[h]
               /\ calls' = <<>>
               /\ remote' = remote]_vars
    /\ [](\A h \in Handles :
            (files[h].live /\ ~HasChar(files[h].mode, "w"))
            => /\ ~files[h].is_dirty
               /\ (ret.op = "close" /\ ret.h = h) => calls = <<>>)

\* a write on a read-only handle that had read was refused
C8_Witness ==
    \E h \in Handles :
        /\ ret.op = "write"
        /\ ret.h = h
        /\ ret.status = "AttributeError"
        /\ files[h].is_read
        /\ ~files[h].is_dirty

\* C9: idempotent delete.  delete(N) for a name N within the root does not
\* raise and leaves no object at N's key; when there was none, the remote
\* store is unchanged, so a second delete has no further effect.
C9_IdempotentDelete ==
    [][(ret'.op = "delete" /\ SaveKey(location, ret'.name).ok)
        => LET key == SaveKey(location, ret'.name).key
           IN  /\ ret'.status = "ok"
               /\ key \notin DOMAIN remote'
               /\ key \notin DOMAIN remote => remote' = remote]_vars

\* a delete of a key that the service did not hold has returned
C9_Witness ==
    /\ ret.op = "delete"
    /\ ret.status = "ok"
    /\ ~ret.flag
    /\ location = <<"u">>

\* C10 as stated: the close of a dirty handle issues exactly one remote put,
\* the close of a handle that is not dirty issues none.
C10_Original ==
    \A h \in Handles :
        (ret.op = "close" /\ ret.h = h)
        => IF files[h].is_dirty
           THEN Len(calls) = 1 /\ IsPut(calls[1])
           ELSE calls = <<>>

\* C10 amended: flush on close.  The close of a dirty handle that is not yet
\* closed and whose name stays within the root issues exactly one remote put,
\* at the normalized cleaned name, of the whole buffer from offset 0 whatever
\* the cursor, and closes the handle; every other close issues no remote call
\* and leaves the remote store unchanged; open, size, read and write never
\* issue a put.
C10_FlushOnClose ==
    [][\A h \in Handles :
        /\ (ret'.op = "close" /\ ret'.h = h)
            => LET f == files[h]
                   saved == SaveKey(location, f.name)
               IN  IF f.is_dirty /\ ~f.closed /\ saved.ok
                   THEN /\ ret'.status = "ok"
                        /\ calls' = <<<<"put", saved.key>>>>
                        /\ remote' = PutObject(remote, saved.key, f.file)
                        /\ files'[h].closed
                   ELSE calls' = <<>> /\ remote' = remote
        /\ (ret'.op \in {"open", "size", "read", "write"})
            => /\ \A i \in 1..Len(calls') : ~IsPut(calls'[i])
               /\ remote' = remote]_vars

\* a close has put a buffer of two bytes
C10_Witness ==
    \E h \in Handles :
        /\ ret.op = "close"
        /\ ret.h = h
        /\ ret.status = "ok"
        /\ calls # <<>>
        /\ Len(files[h].file) = 2
        /\ remote[calls[1][2]] = files[h].file

\* the elements of a sequence
Range(seq) == {seq[i] : i \in 1..Len(seq)}

\* C11: last writer wins.  When a written handle is closed on a name within
\* the root while another handle on the same name has been written and
\* closed, the close raises no error and the remote object is exactly the
\* buffer of the handle that closes, whatever the other handle put; no write
\* on a handle that is not closed raises an error, whatever the other handle
\* has done.
C11_LastWriterWins ==
    [][\A h \in TwoHandles :
        LET f == files[h]
            saved == SaveKey(location, f.name)
        IN  /\ (ret'.op = "close" /\ ret'.h = h /\ f.is_dirty /\ ~f.closed /\ saved.ok)
                => /\ ret'.status = "ok"
                   /\ files'[h].file = f.file
                   /\ remote'[saved.key] = f.file
                   /\ \A k \in DOMAIN remote \ {saved.key} :
                        k \in DOMAIN remote' /\ remote'[k] = remote[k]
                   /\ \A g \in TwoHandles \ {h} : files'[g] = files[g]
            /\ (ret'.op = "write" /\ ret'.h = h /\ f.live /\ ~f.closed)
                => /\ ret'.status = "ok"
                   /\ \A g \in TwoHandles \ {h} : files'[g] = files[g]
                   /\ remote' = remote]_vars

\* both handles on one name were written and closed; the one that closed
\* last holds two bytes, the other one byte, and the object is the two bytes
C11_Witness ==
    \E h \in TwoHandles : \E g \in TwoHandles \ {h} :
        /\ ret.op = "close"
        /\ ret.h = h
        /\ ret.status = "ok"
        /\ files[g].name = files[h].name
        /\ files[h].is_dirty /\ files[h].closed
        /\ files[g].is_dirty /\ files[g].closed
        /\ Len(files[h].file) = 2
        /\ Len(files[g].file) = 1
        /\ remote[SaveKey(location, files[h].name).key] = files[h].file

\* C12: listdir(path) of a path within the root returns exactly the remote
\* keys that start with the normalized cleaned path, each once: every key
\* last put by the close of a written handle under that prefix is in it,
\* and no key outside the prefix is.
C12_Listdir ==
    LET norm == NormalizeName(location, CleanName(ret.name))
    IN  (ret.op = "listdir" /\ norm.ok)
        => /\ ret.status = "ok"
           /\ calls = <<<<"list", norm.key>>>>
           /\ Range(ret.keys) = {k \in DOMAIN remote : StartsWith(k, norm.key)}
           /\ Len(ret.keys) = Cardinality(Range(ret.keys))
           /\ \A k \in DOMAIN lastWrite :
                (lastWrite[k].op = "close" /\ StartsWith(k, norm.key))
                => k \in Range(ret.keys)

\* under root "u" two handles have stored "u/a" and "u/a/b", and the listing
\* of "a/" has returned the one key under "u/a/"
C12_Witness ==
    /\ ret.op = "listdir"
    /\ ret.name = <<"a", "/">>
    /\ location = <<"u">>
    /\ ret.keys = << <<"u", "/", "a", "/", "b">> >>
    /\ Cardinality(DOMAIN remote) = 2
    /\ \A k \in DOMAIN lastWrite : lastWrite[k].op = "close"

\* what a value of the secure_url setting says: a boolean says itself, a
\* string says what it spells
FlagSays(value) == IF value.str THEN value.s = "True" ELSE value.b

\* scheme://bucket.zone.host/key
SchemeUrl(flag, key) ==
    (IF flag THEN <<"h", "t", "t", "p", "s">> ELSE <<"h", "t", "t", "p">>)
        \o <<":", "/", "/">> \o BucketName \o Dot \o BucketZone \o Dot \o ConfigHost
        \o Slash \o key

\* C13: url(name) of a name within the root issues no remote call and
\* returns scheme://bucket.zone.host/key with the normalized name as key,
\* where the scheme is https when the secure_url setting says true and http
\* when it says false, for every value the configuration can supply.
C13_Url ==
    LET norm == NormalizeName(location, CleanName(ret.name))
    IN  (ret.op = "url" /\ norm.ok)
        => /\ calls = <<>>
           /\ ret.status = "ok"
           /\ ret.data = SchemeUrl(FlagSays(store.secure_url), norm.key)

\* C18: bucket provisioning at construction.  The constructor lists the
\* buckets and issues the create-bucket call exactly when the listing is
\* well formed and does not name the target bucket; whatever fails in this
\* step (the listing call, the reading of the listing, the create call),
\* the constructor returns and the store is built.
C18_Provisioning ==
    [][ret'.op = "construct"
        => /\ ret'.status = "ok"
           /\ store'.built
           /\ ListBucketsCall \in Range(calls')
           /\ account.fault \in {"none", "put_raises"}
                => (PutBucketCall \in Range(calls') <=> BucketName \notin account.buckets)]_vars

\* a handle that has neither been written nor read
Untouched(f) == ~(f.is_dirty \/ f.is_read)

\* C14: close is terminal.  Once the buffer of a handle has been closed, no
\* later read, write or size of that handle succeeds, issues a remote call
\* or changes the handle.
C14_CloseTerminal ==
    [][\A h \in Handles :
        ( /\ files[h].live
          /\ files[h].closed
          /\ ret'.h = h
          /\ ret'.op \in {"read", "write", "size"} )
        => /\ ret'.status # "ok"
           /\ calls' = <<>>
           /\ files'[h] = files[h]]_vars

\* what a handle holds, as its reads return it: bytes, or their decoding
Content(f) == IF HasChar(f.mode, "b") THEN f.file ELSE Utf8Decode(f.file)

\* C15: fetch once, then read a snapshot.  A handle issues a remote get only
\* in its first read and in no operation after a write; the reads of a
\* handle that was never written leave its buffer, the content fetched, as
\* it is whatever happens to the remote object, and the data they have
\* returned, one after the other, is a prefix of that content; a read at the
\* end of the buffer returns nothing.
C15_FetchOnce ==
    /\ [](\A h \in Handles :
            LET f == files[h]
            IN  (f.live /\ f.is_read /\ ~f.is_dirty /\ Utf8Valid(f.file))
                => StartsWith(Content(f), f.returned))
    /\ [][\A h \in Handles :
            LET f == files[h]
            IN  /\ (ret'.h = h /\ ret'.op \in {"read", "size", "write", "close"})
                    => (<<"get", f.name>> \in Range(calls')
                            <=> (ret'.op = "read" /\ ~f.is_read))
                /\ (ret'.op = "read" /\ ret'.h = h /\ f.is_read /\ ~f.is_dirty)
                    => /\ files'[h].file = f.file
                       /\ (f.pos = Len(f.file) /\ ~f.closed)
                            => ret'.status = "ok" /\ ret'.data = <<>>
                /\ ~(ret'.h = h /\ ret'.op \in {"open", "read", "write"})
                    => files'[h].file = f.file]_vars

\* size leaves the buffer, the cursor, the flags and the remote store alone
SizeFrame(h) ==
    /\ files'[h].file = files[h].file
    /\ files'[h].pos = files[h].pos
    /\ files'[h].is_dirty = files[h].is_dirty
    /\ files'[h].is_read = files[h].is_read
    /\ files'[h].closed = files[h].closed
    /\ remote' = remote

\* C16 as stated: size changes neither the buffer, the cursor, is_dirty nor
\* is_read; on an untouched handle it calls store.size(name), and a handle
\* that stays untouched issues at most one such remote call: a size that
\* follows a size which called the service calls it no more.
C16_Original ==
    /\ [][\A h \in Handles :
            (ret'.op = "size" /\ ret'.h = h)
            => /\ SizeFrame(h)
               /\ Untouched(files[h])
                    => \A i \in 1..Len(calls') : calls'[i] = <<"list", files[h].name>>]_vars
    /\ [](\A h \in Handles :
            (ret.op = "size" /\ ret.h = h /\ Untouched(files[h]) /\ ret.flag)
            => calls = <<>>)

\* C16 amended: size is non-destructive.  It changes neither the buffer, the
\* cursor, is_dirty, is_read nor the remote store.  On an untouched handle
\* with nothing memoized it issues one remote listing with the handle's name
\* as prefix; when that answers a key, the size is memoized and later sizes
\* of the untouched handle return it without a remote call; when it answers
\* no key, size fails, nothing is memoized and the next size calls again.
C16_SizeNonDestructive ==
    [][\A h \in Handles :
        (ret'.op = "size" /\ ret'.h = h)
        => /\ SizeFrame(h)
           /\ Untouched(files[h])
                => IF files[h].has_size
                   THEN /\ calls' = <<>>
                        /\ ret'.status = "ok"
                        /\ ret'.num = files[h].size
                   ELSE /\ calls' = <<<<"list", files[h].name>>>>
                        /\ IF ret'.status = "ok"
                           THEN files'[h].has_size /\ files'[h].size = ret'.num
                           ELSE ~files'[h].has_size]_vars

\* a size of an untouched handle has returned the memoized size of an object
\* that is no longer what the service holds under that name
C16_Witness ==
    \E h \in Handles :
        /\ ret.op = "size"
        /\ ret.h = h
        /\ ret.status = "ok"
        /\ Untouched(files[h])
        /\ calls = <<>>
        /\ ret.num = 1
        /\ files[h].name \notin DOMAIN remote

\* C17: double close of a handle that is not dirty.  Every close of a handle
\* that was never written, the first and any later one, returns without an
\* error, issues no remote call and leaves the handle closed.
C17_DoubleClose ==
    \A h \in Handles :
        (ret.op = "close" /\ ret.h = h /\ ~files[h].is_dirty)
        => /\ ret.status = "ok"
           /\ calls = <<>>
           /\ files[h].closed

\* a handle that had read was closed when its buffer was closed already
C17_Witness ==
    \E h \in Handles :
        /\ ret.op = "close"
        /\ ret.h = h
        /\ ret.flag
        /\ ret.status = "ok"
        /\ files[h].is_read
        /\ ~files[h].is_dirty

\* whether a name, cleaned and joined onto the root, lies outside the root
EscapesTable ==
    [loc \in StoreRoots |->
        [name \in AllNames |-> EscapesRoot(loc, FinalPath(loc, CleanName(name)))]]

Escapes(name) == EscapesTable[location][name]

\* C19: traversal errors are atomic.  save, delete, exists, listdir and url
\* of a name that escapes the root, and the close of a dirty handle on such
\* a name, fail with SuspiciousOperation; an operation that fails so has
\* issued no remote call and left the remote store unchanged; after such a
\* close the handle is not closed, is still dirty and its buffer is intact.
C19_TraversalAtomic ==
    [][ /\ (ret'.op \in {"save", "delete", "exists", "listdir", "url"} /\ Escapes(ret'.name))
            => ret'.status = "SuspiciousOperation"
        /\ ret'.status = "SuspiciousOperation"
            => calls' = <<>> /\ remote' = remote
        /\ \A h \in Handles :
            (ret'.op = "close" /\ ret'.h = h /\ files[h].is_dirty /\ Escapes(files[h].name))
            => /\ ret'.status = "SuspiciousOperation"
               /\ ~files'[h].closed
               /\ files'[h].is_dirty
               /\ files'[h].file = files[h].file ]_vars

\* the close of a handle with two written bytes on a name outside the root
\* has failed while the service held an object
C19_Witness ==
    \E h \in Handles :
        /\ ret.op = "close"
        /\ ret.h = h
        /\ ret.status = "SuspiciousOperation"
        /\ Len(files[h].file) = 2
        /\ files[h].is_dirty
        /\ ~files[h].closed
        /\ DOMAIN remote # {}

\* C20: flag invariant.  In every state is_dirty implies is_read; until the
\* caller variable is given a new handle, neither flag goes back to false; a
\* dirty handle issues no remote get; and the close that saves puts the
\* handle's buffer, which is the bytes written when the handle has only been
\* written since it was opened.
C20_FlagInvariant ==
    /\ [](\A h \in Handles : files[h].is_dirty => files[h].is_read)
    /\ [][\A h \in Handles :
            /\ ~(ret'.op = "open" /\ ret'.h = h)
                => /\ files[h].is_read => files'[h].is_read
                   /\ files[h].is_dirty => files'[h].is_dirty
            /\ (files[h].is_dirty /\ ret'.h = h /\ ret'.op # "open")
                => \A i \in 1..Len(calls') : calls'[i][1] # "get"
            /\ (ret'.op = "close" /\ ret'.h = h /\ calls' # <<>>)
                => /\ remote'[calls'[1][2]] = files[h].file
                   /\ files[h].only_writes => Len(files[h].file) = files[h].written]_vars

\* a read of a written handle has returned what was written, without a get
C20_Witness ==
    \E h \in Handles :
        /\ ret.op = "read"
        /\ ret.h = h
        /\ ret.status = "ok"
        /\ calls = <<>>
        /\ files[h].is_dirty
        /\ files[h].is_read
        /\ files[h].file # <<>>

====
